---- MODULE Spec2Model ----
(***************************************************************************)
(* WebGL context-loss recovery of the portfolio's 3D layer.                *)
(*                                                                         *)
(* One rendering surface (canvas) carries one handler of each kind the     *)
(* repository defines:                                                     *)
(*   "hook"   useWebGLContextHandler        (lib/useWebGLContextHandler.ts)*)
(*   "setup"  setupWebGLContextHandler      (lib/useWebGLContextHandler.ts)*)
(*   "cls"    class WebGLContextHandler     (lib/useWebGLContextHandler.ts)*)
(*   "globe"  WebGLRendererConfig           (components/ui/Globe.tsx)      *)
(* The platform dispatches webglcontextlost / webglcontextrestored to the  *)
(* canvas; every listener subscribed at that moment runs.                  *)
(*                                                                         *)
(* Besides the handlers the module covers the globe's data preparation     *)
(* (sanitizePositions, ensureColorString, Globe._buildData) and            *)
(* genRandomNumbers of components/ui/Globe.tsx, each under a specification *)
(* of its own: Spec (the handlers on one canvas), SpecFields (the class    *)
(* with assignable public fields), SpecGlobe and SpecRandom.               *)
(***************************************************************************)
EXTENDS Integers, Sequences, FiniteSets, TLC

\* ---------------------------------------------------------------- bounds
\* restored signals a handler may handle in one behaviour
MaxRestored == 2

\* arcs in an array handed to the globe
MaxArcs == 2

\* largest max and largest count genRandomNumbers is called with
MaxValue == 3

MaxCount == 3

\* ------------------------------------------------------------- vocabulary
Handlers == {"hook", "setup", "cls", "globe"}

\* handlers that keep a context-lost flag
FlagHandlers == {"hook", "cls", "globe"}

\* handlers that keep a recovery counter
CounterHandlers == {"hook", "cls"}

Attrs == {"position", "normal", "uv", "color"}

TextureSlots == {"map", "normalMap", "roughnessMap", "metalnessMap", "emissiveMap"}

\* the calls inside the try blocks that may throw, and "none"
FailPoints ==
  {"none", "getSize", "setPixelRatio", "setSize", "setClearColor",
   "traverse", "customRestoration", "invalidate", "render"}

\* ------------------------------------------------------------ scene graph
\* A node of the scene graph in traversal order.  material is the sequence
\* of material ids the node references (empty: no material); isArray tells
\* whether object.material is an array.
Node(isMesh, material, isArray, hasGeometry, attrs) ==
  [isMesh |-> isMesh, material |-> material, isArray |-> isArray,
   hasGeometry |-> hasGeometry, attrs |-> attrs]

Material(kind, slots) == [kind |-> kind, slots |-> slots]

\* one mesh, one standard material, position/normal/uv
SceneOneMesh ==
  [nodes |-> << Node(FALSE, <<>>, FALSE, FALSE, {}),
                Node(TRUE, <<1>>, FALSE, TRUE, {"position", "normal", "uv"}) >>,
   mats  |-> << Material("Standard", {"map", "normalMap"}) >>]

\* two meshes (one material lacks a normal map, one uses a material array
\* holding a MeshLambertMaterial) and a line that carries a textured material
SceneMixed ==
  [nodes |-> << Node(TRUE, <<1>>, FALSE, TRUE, Attrs),
                Node(TRUE, <<2, 3>>, TRUE, TRUE, {"position"}),
                Node(FALSE, <<4>>, FALSE, TRUE, {"position", "color"}) >>,
   mats  |-> << Material("Standard", TextureSlots),
                Material("Standard", {"map", "roughnessMap"}),
                Material("Lambert", {"map"}),
                Material("Basic", {"map"}) >>]

Scenes == {SceneOneMesh, SceneMixed}

NoMarks == [mat |-> {}, arr |-> {}, attr |-> {}, tex |-> {}]

MarksUnion(a, b) ==
  [mat |-> a.mat \cup b.mat, arr |-> a.arr \cup b.arr,
   attr |-> a.attr \cup b.attr, tex |-> a.tex \cup b.tex]

Range(s) == {s[i] : i \in 1..Len(s)}

\* ------------------------------------------------------------------ state
VARIABLES
  scene,                \* the application's scene graph (structure)
  mounted,              \* the handlers the host has created
  options,              \* per handler: which optional members the caller supplied
                        \* when it created the handler
  listeners,            \* canvas listener list: set of <<signal, handler>>
  contextLost,          \* per flag handler: the context-lost flag
  restorationAttempts,  \* per counter handler: the recovery counter
  needsUpdate,          \* needsUpdate flags set in the scene graph
  invoked,              \* handlers whose listener ran in the last step
  trace,                \* per handler: effects of its last invocation, in order
  escaped,              \* per handler: its last invocation let an exception escape
  result,               \* per handler: outcome of its last restoration procedure
  handled,              \* per handler: restored signals handled so far
  succeeded,            \* per handler: of those, restorations that completed
  lostSeen,             \* a lost signal has been delivered to the canvas
  detachCalled,         \* handlers whose detachment handle has been called
  op,                   \* the last operation performed (again: a detachment
                        \* handle called when its handler was already detached,
                        \* a signal delivered right after the same signal)
  hookPairs,            \* listener pairs of the hook instance on the canvas
  clsFields,            \* the public fields of the WebGLContextHandler object
  logging,              \* per handler: the enableLogging it was created with
  logged,               \* handlers that wrote to the console in the last step
  \* components/ui/Globe.tsx, module level and Globe component
  production,           \* process.env.NODE_ENV === "production"
  loggedNaNSanitize,    \* module-level flag
  loggedColorSanitize,  \* module-level flag
  console,              \* the warnings written so far, in order
  passed,               \* the array last passed to sanitizePositions, as passed
  data,                 \* the Globe component's data, the same array object
  sanitized,            \* what the last call of sanitizePositions returned
  globeData,            \* the point list last passed to setGlobeData
  colorResult,          \* what the last call of ensureColorString returned
  \* genRandomNumbers(min, max, count)
  min, max, count,      \* the arguments
  arr,                  \* the local array
  pc                    \* "idle", "loop" (in the while loop) or "done" (returned)

\* the state of the context handlers
handlerVars ==
  << scene, mounted, options, listeners, contextLost, restorationAttempts,
     needsUpdate, invoked, trace, escaped, result, handled, succeeded, lostSeen,
     detachCalled, hookPairs, clsFields, logging, logged >>

\* the state of the globe's data preparation
globeVars ==
  << production, loggedNaNSanitize, loggedColorSanitize, console, passed, data,
     sanitized, globeData, colorResult >>

\* the state of one call of genRandomNumbers
randomVars == << min, max, count, arr, pc >>

vars == << handlerVars, op, globeVars, randomVars >>


\* ------------------------------------------------- restoration procedures
\* needsUpdate marks one visit of the traversal callback applies to node i

\* variant of HookNodeMarks: the texture slots are not marked
HookNodeMarks_NoTextures(sc, i) ==
  LET n == sc.nodes[i] IN
  [mat  |-> IF n.isMesh /\ n.material # <<>> THEN Range(n.material) ELSE {},
   arr  |-> {},
   attr |-> IF n.isMesh /\ n.hasGeometry
            THEN {<<i, a>> : a \in n.attrs \cap {"position", "normal", "uv", "color"}}
            ELSE {},
   tex  |-> {}]

\* useWebGLContextHandler.restoreScene, the callback of scene.traverse
HookNodeMarks(sc, i) ==
  LET n == sc.nodes[i] IN
  [mat  |-> IF n.isMesh /\ n.material # <<>> THEN Range(n.material) ELSE {},
   arr  |-> {},
   attr |-> IF n.isMesh /\ n.hasGeometry
            THEN {<<i, a>> : a \in n.attrs \cap {"position", "normal", "uv", "color"}}
            ELSE {},
   tex  |-> IF n.material # <<>>
            THEN UNION {{<<m, s>> : s \in sc.mats[m].slots \cap TextureSlots}
                        : m \in Range(n.material)}
            ELSE {}]

\* setupWebGLContextHandler.restoreScene, the callback of scene.traverse
SetupNodeMarks(sc, i) ==
  LET n == sc.nodes[i] IN
  [mat  |-> IF n.isMesh /\ n.material # <<>> THEN Range(n.material) ELSE {},
   arr  |-> {},
   attr |-> IF n.isMesh /\ n.hasGeometry
            THEN {<<i, a>> : a \in n.attrs \cap {"position", "normal", "uv", "color"}}
            ELSE {},
   tex  |-> IF n.isMesh /\ n.material # <<>>
            THEN UNION {{<<m, s>> : s \in sc.mats[m].slots \cap TextureSlots}
                        : m \in {x \in Range(n.material) :
                                   sc.mats[x].kind \in {"Standard", "Phong", "Basic"}}}
            ELSE {}]

\* WebGLRendererConfig.onRestored, the callback of scene.traverse:
\* object.material.needsUpdate = true is set on whatever object.material is,
\* so on the array object itself when the node holds a material array
GlobeNodeMarks(sc, i) ==
  LET n == sc.nodes[i] IN
  [mat  |-> IF n.isMesh /\ n.material # <<>> /\ ~n.isArray
            THEN Range(n.material) ELSE {},
   arr  |-> IF n.isMesh /\ n.material # <<>> /\ n.isArray THEN {i} ELSE {},
   attr |-> IF n.isMesh /\ n.hasGeometry
            THEN {<<i, a>> : a \in n.attrs \cap {"position", "normal", "uv"}}
            ELSE {},
   tex  |-> {}]

\* variant of HookCalls: the scene is traversed before the renderer is
\* configured
HookCalls_TraverseFirst(opts) ==
  <<"traverse", "setPixelRatio", "setSize">>
    \o (IF opts.customRestoration THEN <<"customRestoration">> ELSE <<>>)
    \o <<"invalidate">>

\* the calls of each try block, in program order
HookCalls(opts) ==
  <<"setPixelRatio", "setSize", "traverse">>
    \o (IF opts.customRestoration THEN <<"customRestoration">> ELSE <<>>)
    \o <<"invalidate">>

\* variant of SetupCalls: customRestoration runs after the redraw
SetupCalls_CustomLast(opts) ==
  <<"getSize", "setPixelRatio", "setSize", "traverse">>
    \o (IF opts.camera THEN <<"render">> ELSE <<>>)
    \o (IF opts.customRestoration THEN <<"customRestoration">> ELSE <<>>)

SetupCalls(opts) ==
  <<"getSize", "setPixelRatio", "setSize", "traverse">>
    \o (IF opts.customRestoration THEN <<"customRestoration">> ELSE <<>>)
    \o (IF opts.camera THEN <<"render">> ELSE <<>>)

GlobeCalls ==
  <<"setPixelRatio", "getSize", "setSize", "setClearColor", "traverse", "invalidate">>

\* index of the call that throws, Len(calls) + 1 when none does
ThrowIndex(calls, fail) ==
  IF \E i \in 1..Len(calls) : calls[i] = fail
  THEN CHOOSE i \in 1..Len(calls) :
         calls[i] = fail /\ \A j \in 1..(i - 1) : calls[j] # fail
  ELSE Len(calls) + 1

\* the traversal callback of handler kind k ("hook", "setup" or "globe")
NodeMarks(k, sc, i) ==
  CASE k = "hook"  -> HookNodeMarks(sc, i)
    [] k = "setup" -> SetupNodeMarks(sc, i)
    [] k = "globe" -> GlobeNodeMarks(sc, i)

\* marks of a traversal that visited nodes 1..upTo
TraverseMarks(k, sc, upTo) ==
  [mat  |-> UNION {NodeMarks(k, sc, i).mat  : i \in 1..upTo},
   arr  |-> UNION {NodeMarks(k, sc, i).arr  : i \in 1..upTo},
   attr |-> UNION {NodeMarks(k, sc, i).attr : i \in 1..upTo},
   tex  |-> UNION {NodeMarks(k, sc, i).tex  : i \in 1..upTo}]

\* variant of RunTry: the catch block reports success
RunTry_CatchReturnsTrue(calls, k, sc, fail, failNode) ==
  LET t    == ThrowIndex(calls, fail)
      done == SubSeq(calls, 1, t - 1)
  IN  [ok    |-> TRUE,
       steps |-> done,
       marks |-> IF "traverse" \in Range(done)
                 THEN TraverseMarks(k, sc, Len(sc.nodes))
                 ELSE IF t <= Len(calls) /\ calls[t] = "traverse"
                      THEN TraverseMarks(k, sc, failNode - 1)
                      ELSE NoMarks]

\* variant of RunTry: the catch block undoes the marks of the traversal
RunTry_RollsBack(calls, k, sc, fail, failNode) ==
  LET t    == ThrowIndex(calls, fail)
      done == SubSeq(calls, 1, t - 1)
  IN  [ok    |-> t = Len(calls) + 1,
       steps |-> done,
       marks |-> IF t = Len(calls) + 1
                 THEN TraverseMarks(k, sc, Len(sc.nodes))
                 ELSE NoMarks]

\* try { calls } catch { return false }: the calls run in order until the
\* one named by fail throws; a traversal that throws does so on entering
\* node failNode, the marks of the nodes visited before it stay
RunTry(calls, k, sc, fail, failNode) ==
  LET t    == ThrowIndex(calls, fail)
      done == SubSeq(calls, 1, t - 1)
  IN  [ok    |-> t = Len(calls) + 1,
       steps |-> done,
       marks |-> IF "traverse" \in Range(done)
                 THEN TraverseMarks(k, sc, Len(sc.nodes))
                 ELSE IF t <= Len(calls) /\ calls[t] = "traverse"
                      THEN TraverseMarks(k, sc, failNode - 1)
                      ELSE NoMarks]

\* useWebGLContextHandler.restoreScene (also returned as forceRestore)
HookRestoreScene(sc, opts, fail, failNode) ==
  RunTry(HookCalls(opts), "hook", sc, fail, failNode)

\* setupWebGLContextHandler.restoreScene
SetupRestoreScene(sc, opts, fail, failNode) ==
  RunTry(SetupCalls(opts), "setup", sc, fail, failNode)

\* the try block of WebGLRendererConfig.onRestored
GlobeRestore(sc, fail, failNode) ==
  RunTry(GlobeCalls, "globe", sc, fail, failNode)

\* ---------------------------------------------------------- the handlers
\* What one run of a signal handler does to its handler: the flag and the
\* counter after it, its effects in order, whether an exception left the
\* handler, the outcome of the restoration procedure, the scene marks.
Outcome(lost, attempts, steps, esc, res, marks) ==
  [lost |-> lost, attempts |-> attempts, steps |-> steps,
   escaped |-> esc, result |-> res, marks |-> marks]

ResultOf(r) == IF r.ok THEN "ok" ELSE "failed"

\* A callback handed to a handler: whether it was supplied, what it does in
\* order, whether this call of it throws, and what it does to the state of
\* the object that owns it (setLost: "keep", "true" or "false").
Callback(present, steps, throws, setLost, inc) ==
  [present |-> present, steps |-> steps, throws |-> throws,
   setLost |-> setLost, inc |-> inc]

\* a caller-supplied onContextLost / onContextRestored
UserCallback(present, name, cbThrows) ==
  Callback(present, <<name>>, cbThrows, "keep", 0)

FlagAfter(lost, cb) ==
  IF ~cb.present \/ cb.setLost = "keep" THEN lost ELSE cb.setLost = "true"

CounterAfter(attempts, cb) ==
  IF cb.present THEN attempts + cb.inc ELSE attempts

\* variant of HookHandleContextLost: setContextLost(true) is missing
HookHandleContextLost_KeepsFlag(lost, attempts, opts, cbThrows) ==
  Outcome(lost, attempts,
          <<"preventDefault", "contextLost:=true">>
            \o (IF opts.onContextLost THEN <<"onContextLost">> ELSE <<>>),
          opts.onContextLost /\ cbThrows, "none", NoMarks)

\* variant of HookHandleContextLost: the lost listener flags a material
HookHandleContextLost_MarksScene(lost, attempts, opts, cbThrows) ==
  Outcome(TRUE, attempts,
          <<"preventDefault", "contextLost:=true">>
            \o (IF opts.onContextLost THEN <<"onContextLost">> ELSE <<>>),
          opts.onContextLost /\ cbThrows, "none", [NoMarks EXCEPT !.mat = {1}])

\* variant of HookHandleContextLost: the flag is toggled instead of set
HookHandleContextLost_Toggles(lost, attempts, opts, cbThrows) ==
  Outcome(~lost, attempts,
          <<"preventDefault", "contextLost:=true">>
            \o (IF opts.onContextLost THEN <<"onContextLost">> ELSE <<>>),
          opts.onContextLost /\ cbThrows, "none", NoMarks)

\* useWebGLContextHandler, handleContextLost
HookHandleContextLost(lost, attempts, opts, cbThrows) ==
  Outcome(TRUE, attempts,
          <<"preventDefault", "contextLost:=true">>
            \o (IF opts.onContextLost THEN <<"onContextLost">> ELSE <<>>),
          opts.onContextLost /\ cbThrows, "none", NoMarks)

\* variant of HookHandleContextRestored: the counter is incremented only
\* after the restoration procedure succeeded
HookHandleContextRestored_CountsSuccess(lost, attempts, sc, opts, fail, failNode, cbThrows) ==
  LET r == HookRestoreScene(sc, opts, fail, failNode) IN
  Outcome(FALSE, IF r.ok THEN attempts + 1 ELSE attempts,
          <<"contextLost:=false">> \o r.steps
            \o (IF r.ok THEN <<"restorationAttempts++">> ELSE <<>>)
            \o (IF r.ok /\ opts.onContextRestored
                THEN <<"onContextRestored">> ELSE <<>>),
          r.ok /\ opts.onContextRestored /\ cbThrows, ResultOf(r), r.marks)

\* variant of HookHandleContextRestored: a restoration that failed is tried
\* once more
HookHandleContextRestored_Retries(lost, attempts, sc, opts, fail, failNode, cbThrows) ==
  LET r == HookRestoreScene(sc, opts, fail, failNode) IN
  Outcome(FALSE, attempts + 1,
          <<"contextLost:=false", "restorationAttempts++">> \o r.steps
            \o (IF r.ok THEN <<>> ELSE r.steps)
            \o (IF r.ok /\ opts.onContextRestored
                THEN <<"onContextRestored">> ELSE <<>>),
          r.ok /\ opts.onContextRestored /\ cbThrows, ResultOf(r), r.marks)

\* variant of HookHandleContextRestored: the flag is cleared only when the
\* restoration procedure succeeded
HookHandleContextRestored_ClearsOnSuccess(lost, attempts, sc, opts, fail, failNode, cbThrows) ==
  LET r == HookRestoreScene(sc, opts, fail, failNode) IN
  Outcome(IF r.ok THEN FALSE ELSE lost, attempts + 1,
          <<"contextLost:=false", "restorationAttempts++">> \o r.steps
            \o (IF r.ok /\ opts.onContextRestored
                THEN <<"onContextRestored">> ELSE <<>>),
          r.ok /\ opts.onContextRestored /\ cbThrows, ResultOf(r), r.marks)

\* useWebGLContextHandler, handleContextRestored
HookHandleContextRestored(lost, attempts, sc, opts, fail, failNode, cbThrows) ==
  LET r == HookRestoreScene(sc, opts, fail, failNode) IN
  Outcome(FALSE, attempts + 1,
          <<"contextLost:=false", "restorationAttempts++">> \o r.steps
            \o (IF r.ok /\ opts.onContextRestored
                THEN <<"onContextRestored">> ELSE <<>>),
          r.ok /\ opts.onContextRestored /\ cbThrows, ResultOf(r), r.marks)

\* setupWebGLContextHandler, handleContextLost
SetupHandleContextLost(lost, attempts, onLost) ==
  Outcome(FlagAfter(lost, onLost), CounterAfter(attempts, onLost),
          <<"preventDefault">> \o (IF onLost.present THEN onLost.steps ELSE <<>>),
          onLost.present /\ onLost.throws, "none", NoMarks)

\* variant of SetupHandleContextRestored: onContextRestored is called
\* without looking at the outcome of restoreScene
SetupHandleContextRestored_AlwaysCalls(lost, attempts, sc, opts, onRestored, fail, failNode) ==
  LET r    == SetupRestoreScene(sc, opts, fail, failNode)
      call == onRestored.present
  IN  Outcome(IF call THEN FlagAfter(lost, onRestored) ELSE lost,
              IF call THEN CounterAfter(attempts, onRestored) ELSE attempts,
              r.steps \o (IF call THEN onRestored.steps ELSE <<>>),
              call /\ onRestored.throws, ResultOf(r), r.marks)

\* setupWebGLContextHandler, handleContextRestored
SetupHandleContextRestored(lost, attempts, sc, opts, onRestored, fail, failNode) ==
  LET r    == SetupRestoreScene(sc, opts, fail, failNode)
      call == r.ok /\ onRestored.present
  IN  Outcome(IF call THEN FlagAfter(lost, onRestored) ELSE lost,
              IF call THEN CounterAfter(attempts, onRestored) ELSE attempts,
              r.steps \o (IF call THEN onRestored.steps ELSE <<>>),
              call /\ onRestored.throws, ResultOf(r), r.marks)

\* variant of ClsOnContextLost: the caller's callback runs before the flag
\* is set
ClsOnContextLost_CallbackFirst(opts, cbThrows) ==
  Callback(TRUE,
           (IF opts.onContextLost THEN <<"onContextLost">> ELSE <<>>)
             \o <<"contextLost:=true">>,
           opts.onContextLost /\ cbThrows, "true", 0)

\* WebGLContextHandler.initialize, the onContextLost it hands to setup
ClsOnContextLost(opts, cbThrows) ==
  Callback(TRUE,
           <<"contextLost:=true">>
             \o (IF opts.onContextLost THEN <<"onContextLost">> ELSE <<>>),
           opts.onContextLost /\ cbThrows, "true", 0)

\* variant of ClsOnContextRestored: restorationAttempts++ is missing
ClsOnContextRestored_NoCount(opts, cbThrows) ==
  Callback(TRUE,
           <<"contextLost:=false", "restorationAttempts++">>
             \o (IF opts.onContextRestored THEN <<"onContextRestored">> ELSE <<>>),
           opts.onContextRestored /\ cbThrows, "false", 0)

\* variant of ClsOnContextRestored: this.contextLost = false is missing
ClsOnContextRestored_KeepsFlag(opts, cbThrows) ==
  Callback(TRUE,
           <<"contextLost:=false", "restorationAttempts++">>
             \o (IF opts.onContextRestored THEN <<"onContextRestored">> ELSE <<>>),
           opts.onContextRestored /\ cbThrows, "keep", 1)

\* WebGLContextHandler.initialize, the onContextRestored it hands to setup
ClsOnContextRestored(opts, cbThrows) ==
  Callback(TRUE,
           <<"contextLost:=false", "restorationAttempts++">>
             \o (IF opts.onContextRestored THEN <<"onContextRestored">> ELSE <<>>),
           opts.onContextRestored /\ cbThrows, "false", 1)

\* WebGLRendererConfig, onLost
GlobeOnLost(lost) ==
  Outcome(TRUE, 0, <<"preventDefault", "contextLost:=true">>, FALSE, "none", NoMarks)

\* variant of GlobeOnRestored: the flag is cleared at the end of the try
\* block
GlobeOnRestored_ClearsOnSuccess(lost, sc, fail, failNode) ==
  LET r == GlobeRestore(sc, fail, failNode) IN
  Outcome(IF r.ok THEN FALSE ELSE lost, 0,
          r.steps \o (IF r.ok THEN <<"contextLost:=false">> ELSE <<>>),
          FALSE, ResultOf(r), r.marks)

\* WebGLRendererConfig, onRestored
GlobeOnRestored(lost, sc, fail, failNode) ==
  LET r == GlobeRestore(sc, fail, failNode) IN
  Outcome(FALSE, 0, <<"contextLost:=false">> \o r.steps, FALSE, ResultOf(r), r.marks)

\* variant of RemoveListeners: only the lost listener is removed
RemoveListeners_LostOnly(ls, h) ==
  ls \ {<<"lost", h>>}

\* variant of RemoveListeners: the listeners are removed by signal name, not
\* by function reference
RemoveListeners_BySignal(ls, h) ==
  {}

\* canvas.removeEventListener for both signals, with the handler's own
\* function references
RemoveListeners(ls, h) ==
  ls \ {<<"lost", h>>, <<"restored", h>>}

\* ------------------------------------------------------------ the machine
Options(onLost, onRestored, custom, camera) ==
  [onContextLost |-> onLost, onContextRestored |-> onRestored,
   customRestoration |-> custom, camera |-> camera]

NoOptions == Options(FALSE, FALSE, FALSE, FALSE)

\* the option records the host attaches handlers with
OptionSets ==
  {NoOptions,
   Options(TRUE, TRUE, TRUE, TRUE),
   Options(TRUE, TRUE, FALSE, FALSE),
   Options(FALSE, TRUE, TRUE, FALSE)}

\* the handlers the host has attached to the canvas
MountSets ==
  {{"hook", "setup"}, {"cls", "setup"}, {"globe", "setup"}}

\* the inputs of one restoration: the call that throws and, for a traversal
\* that throws, the node on which it does
FailInputs ==
  {<<f, 1>> : f \in FailPoints \ {"traverse"}}
    \cup {<<"traverse", k>> : k \in 1..Len(scene.nodes)}

\* the public fields of WebGLContextHandler as its constructor sets them
\* from the configuration
Fields(opts, enableLogging) ==
  [onContextLost |-> opts.onContextLost,
   onContextRestored |-> opts.onContextRestored,
   customRestoration |-> opts.customRestoration,
   enableLogging |-> enableLogging]

\* variant of EnableLogging: the class looks at its public field whenever
\* it is about to log
EnableLogging_ReadsField(h) ==
  IF h = "cls" THEN clsFields.enableLogging ELSE logging[h]

\* the enableLogging a handler's functions were created with; each handled
\* signal and each run of restoreScene writes to the console when it is true
EnableLogging(h) == logging[h]

\* variant of HookEffectCleanup: the previous listeners are left subscribed
HookEffectCleanup_Missing(n) == n

\* the cleanup of the hook's effect removes the pair of listeners that run
\* of the effect subscribed
HookEffectCleanup(n) == n - 1

\* the hook's effect subscribes a new pair of listeners
HookEffectSubscribe(n, runs) == IF runs THEN n + 1 ELSE n

\* no call into the globe's data preparation has been made
GlobeIdle ==
  /\ production = FALSE
  /\ loggedNaNSanitize = FALSE
  /\ loggedColorSanitize = FALSE
  /\ console = <<>>
  /\ passed = <<>>
  /\ data = <<>>
  /\ sanitized = <<>>
  /\ globeData = <<>>
  /\ colorResult = ""

\* genRandomNumbers is not running
RandomIdle ==
  /\ min = 0 /\ max = 0 /\ count = 0
  /\ arr = <<>>
  /\ pc = "idle"

FlagOf(h) == IF h \in FlagHandlers THEN contextLost[h] ELSE FALSE

CounterOf(h) == IF h \in CounterHandlers THEN restorationAttempts[h] ELSE 0

\* the state after every handler has been attached to the canvas
Init ==
  /\ scene \in Scenes
  /\ \E o \in OptionSets :
       options = [h \in Handlers |-> IF h = "globe" THEN NoOptions ELSE o]
  /\ mounted \in MountSets
  /\ listeners = {"lost", "restored"} \X mounted
  /\ contextLost = [h \in FlagHandlers |-> FALSE]
  /\ restorationAttempts = [h \in CounterHandlers |-> 0]
  /\ needsUpdate = NoMarks
  /\ invoked = {}
  /\ trace = [h \in Handlers |-> <<>>]
  /\ escaped = [h \in Handlers |-> FALSE]
  /\ result = [h \in Handlers |-> "none"]
  /\ handled = [h \in Handlers |-> 0]
  /\ succeeded = [h \in Handlers |-> 0]
  /\ lostSeen = FALSE
  /\ detachCalled = {}
  /\ op = [name |-> "init", h |-> "canvas", again |-> FALSE]
  /\ hookPairs = HookEffectSubscribe(0, "hook" \in mounted)
  /\ clsFields = Fields(options["cls"], TRUE)
  /\ logging = [h \in Handlers |-> h # "globe"]
  /\ logged = {}
  /\ GlobeIdle
  /\ RandomIdle

\* the listener of handler h for the lost signal
HandleLost(h, cbThrows) ==
  CASE h = "hook"  -> HookHandleContextLost(FlagOf(h), CounterOf(h), options[h], cbThrows)
    [] h = "setup" -> SetupHandleContextLost(FlagOf(h), CounterOf(h),
                        UserCallback(options[h].onContextLost, "onContextLost", cbThrows))
    [] h = "cls"   -> SetupHandleContextLost(FlagOf(h), CounterOf(h),
                        ClsOnContextLost(clsFields, cbThrows))
    [] h = "globe" -> GlobeOnLost(FlagOf(h))

\* the listener of handler h for the restored signal
HandleRestored(h, fail, failNode, cbThrows) ==
  CASE h = "hook"  -> HookHandleContextRestored(FlagOf(h), CounterOf(h), scene,
                        options[h], fail, failNode, cbThrows)
    [] h = "setup" -> SetupHandleContextRestored(FlagOf(h), CounterOf(h), scene, options[h],
                        UserCallback(options[h].onContextRestored, "onContextRestored", cbThrows),
                        fail, failNode)
    [] h = "cls"   -> SetupHandleContextRestored(FlagOf(h), CounterOf(h), scene, options[h],
                        ClsOnContextRestored(clsFields, cbThrows), fail, failNode)
    [] h = "globe" -> GlobeOnRestored(FlagOf(h), scene, fail, failNode)

\* the handlers subscribed to a signal
Subscribed(signal) == {h \in Handlers : <<signal, h>> \in listeners}

AllMarks(ran, out) ==
  [mat  |-> needsUpdate.mat  \cup UNION {out[h].marks.mat  : h \in ran},
   arr  |-> needsUpdate.arr  \cup UNION {out[h].marks.arr  : h \in ran},
   attr |-> needsUpdate.attr \cup UNION {out[h].marks.attr : h \in ran},
   tex  |-> needsUpdate.tex  \cup UNION {out[h].marks.tex  : h \in ran}]

\* the canvas dispatches a signal: every subscribed listener runs
Dispatch(signal, ran, out) ==
  /\ contextLost' = [h \in FlagHandlers |->
                       IF h \in ran THEN out[h].lost ELSE contextLost[h]]
  /\ restorationAttempts' = [h \in CounterHandlers |->
                       IF h \in ran THEN out[h].attempts ELSE restorationAttempts[h]]
  /\ needsUpdate' = AllMarks(ran, out)
  /\ invoked' = ran
  /\ trace' = [h \in Handlers |-> IF h \in ran THEN out[h].steps ELSE <<>>]
  /\ escaped' = [h \in Handlers |-> h \in ran /\ out[h].escaped]
  /\ result' = [h \in Handlers |-> IF h \in ran THEN out[h].result ELSE "none"]
  /\ handled' = [h \in Handlers |->
                   IF h \in ran /\ signal = "restored" THEN handled[h] + 1 ELSE handled[h]]
  /\ succeeded' = [h \in Handlers |->
                   IF h \in ran /\ out[h].result = "ok" THEN succeeded[h] + 1
                   ELSE succeeded[h]]
  /\ lostSeen' = (lostSeen \/ signal = "lost")
  /\ op' = [name |-> signal, h |-> "canvas", again |-> op.name = signal]
  /\ logged' = {h \in ran : EnableLogging(h)}
  /\ UNCHANGED << scene, mounted, options, listeners, detachCalled,
                  hookPairs, clsFields, logging, globeVars, randomVars >>

\* the platform delivers webglcontextlost
LostSignal ==
  \E cbThrows \in BOOLEAN :
    \E out \in {[h \in Subscribed("lost") |-> HandleLost(h, cbThrows)]} :
      Dispatch("lost", Subscribed("lost"), out)

\* the platform delivers webglcontextrestored
RestoredSignal ==
  /\ \A h \in Handlers : handled[h] < MaxRestored
  /\ \E f \in FailInputs, cbThrows \in BOOLEAN :
       \E out \in {[h \in Subscribed("restored") |->
                       HandleRestored(h, f[1], f[2], cbThrows)]} :
         Dispatch("restored", Subscribed("restored"), out)

\* variant of ForceRestore: the manual trigger counts as a recovery
ForceRestore_Counts ==
  \E f \in FailInputs :
    \E r \in {HookRestoreScene(scene, options["hook"], f[1], f[2])} :
    /\ "hook" \in mounted
    /\ restorationAttempts["hook"] < MaxRestored
    /\ restorationAttempts' = [restorationAttempts EXCEPT !["hook"] = @ + 1]
    /\ needsUpdate' = MarksUnion(needsUpdate, r.marks)
    /\ invoked' = {}
    /\ trace' = [h \in Handlers |-> IF h = "hook" THEN r.steps ELSE <<>>]
    /\ escaped' = [h \in Handlers |-> FALSE]
    /\ result' = [h \in Handlers |-> IF h = "hook" THEN ResultOf(r) ELSE "none"]
    /\ op' = [name |-> "forceRestore", h |-> "hook", again |-> FALSE]
    /\ logged' = {h \in {"hook"} : EnableLogging(h)}
    /\ UNCHANGED << scene, mounted, options, listeners, contextLost,
                    handled, succeeded, lostSeen, detachCalled,
                    hookPairs, clsFields, logging, globeVars, randomVars >>

\* the host calls the hook's forceRestore
ForceRestore ==
  \E f \in FailInputs :
    \E r \in {HookRestoreScene(scene, options["hook"], f[1], f[2])} :
    /\ "hook" \in mounted
    /\ needsUpdate' = MarksUnion(needsUpdate, r.marks)
    /\ invoked' = {}
    /\ trace' = [h \in Handlers |-> IF h = "hook" THEN r.steps ELSE <<>>]
    /\ escaped' = [h \in Handlers |-> FALSE]
    /\ result' = [h \in Handlers |-> IF h = "hook" THEN ResultOf(r) ELSE "none"]
    /\ op' = [name |-> "forceRestore", h |-> "hook", again |-> FALSE]
    /\ logged' = {h \in {"hook"} : EnableLogging(h)}
    /\ UNCHANGED << scene, mounted, options, listeners, contextLost, restorationAttempts,
                    handled, succeeded, lostSeen, detachCalled,
                    hookPairs, clsFields, logging, globeVars, randomVars >>

\* the detachment handle of handler h: the hook's and the globe's effect
\* cleanup, the function setup returned, the class's dispose()
Detach(h) ==
  /\ h \in mounted
  /\ listeners' = RemoveListeners(listeners, h)
  /\ invoked' = {}
  /\ trace' = [x \in Handlers |-> <<>>]
  /\ escaped' = [x \in Handlers |-> FALSE]
  /\ result' = [x \in Handlers |-> "none"]
  /\ detachCalled' = detachCalled \cup {h}
  /\ hookPairs' = IF h = "hook" /\ h \notin detachCalled
                  THEN HookEffectCleanup(hookPairs) ELSE hookPairs
  /\ logged' = {}
  /\ op' = [name |-> "detach", h |-> h, again |-> h \in detachCalled]
  /\ UNCHANGED << scene, mounted, options, contextLost, restorationAttempts, needsUpdate,
                  handled, succeeded, lostSeen, clsFields, logging, globeVars, randomVars >>

\* the calls of WebGLRendererConfig's renderer-settings effect
GlobeSettingsCalls == <<"setPixelRatio", "setSize", "setClearColor">>

\* the canvas size changes while WebGLRendererConfig is mounted: the effect
\* with dependencies [gl, size] runs again, the context-loss effect, whose
\* dependencies are [gl, scene, invalidate], does not
GlobeSizeChange ==
  /\ "globe" \in mounted
  /\ "globe" \notin detachCalled
  /\ invoked' = {}
  /\ trace' = [h \in Handlers |-> IF h = "globe" THEN GlobeSettingsCalls ELSE <<>>]
  /\ escaped' = [h \in Handlers |-> FALSE]
  /\ result' = [h \in Handlers |-> "none"]
  /\ logged' = {}
  /\ op' = [name |-> "resize", h |-> "globe", again |-> FALSE]
  /\ UNCHANGED << scene, mounted, options, listeners, contextLost, restorationAttempts,
                  needsUpdate, handled, succeeded, lostSeen, detachCalled,
                  hookPairs, clsFields, logging, globeVars, randomVars >>

\* the component using the hook renders again with a changed dependency of
\* the hook's effect: React runs the cleanup of the previous run of the
\* effect, then the effect; the values kept by useState are not touched
HookRerender ==
  /\ "hook" \in mounted
  /\ "hook" \notin detachCalled
  /\ hookPairs' = HookEffectSubscribe(HookEffectCleanup(hookPairs), TRUE)
  /\ listeners' = RemoveListeners(listeners, "hook")
                    \cup ({"lost", "restored"} \X {"hook"})
  /\ invoked' = {}
  /\ trace' = [h \in Handlers |-> <<>>]
  /\ escaped' = [h \in Handlers |-> FALSE]
  /\ result' = [h \in Handlers |-> "none"]
  /\ logged' = {}
  /\ op' = [name |-> "rerender", h |-> "hook", again |-> FALSE]
  /\ UNCHANGED << scene, mounted, options, contextLost, restorationAttempts, needsUpdate,
                  handled, succeeded, lostSeen, detachCalled, clsFields, logging,
                  globeVars, randomVars >>

Next ==
  \/ LostSignal
  \/ RestoredSignal
  \/ ForceRestore
  \/ GlobeSizeChange
  \/ HookRerender
  \/ \E h \in Handlers : Detach(h)

Spec == Init /\ [][Next]_vars

\* ------------------------------ the class with assignable public fields
FieldNames == {"onContextLost", "onContextRestored", "customRestoration", "enableLogging"}

\* the host has created one WebGLContextHandler, with or without logging
InitFields ==
  /\ scene \in Scenes
  /\ \E o \in OptionSets :
       options = [h \in Handlers |-> IF h = "cls" THEN o ELSE NoOptions]
  /\ mounted = {"cls"}
  /\ listeners = {"lost", "restored"} \X mounted
  /\ contextLost = [h \in FlagHandlers |-> FALSE]
  /\ restorationAttempts = [h \in CounterHandlers |-> 0]
  /\ needsUpdate = NoMarks
  /\ invoked = {}
  /\ trace = [h \in Handlers |-> <<>>]
  /\ escaped = [h \in Handlers |-> FALSE]
  /\ result = [h \in Handlers |-> "none"]
  /\ handled = [h \in Handlers |-> 0]
  /\ succeeded = [h \in Handlers |-> 0]
  /\ lostSeen = FALSE
  /\ detachCalled = {}
  /\ op = [name |-> "init", h |-> "canvas", again |-> FALSE]
  /\ hookPairs = 0
  /\ \E l \in BOOLEAN :
       /\ logging = [h \in Handlers |-> h = "cls" /\ l]
       /\ clsFields = Fields(options["cls"], l)
  /\ logged = {}
  /\ GlobeIdle
  /\ RandomIdle

\* the host assigns one of the public fields of the WebGLContextHandler
\* object: a function or undefined, true or false for enableLogging
ClsAssign(field, v) ==
  /\ "cls" \in mounted
  /\ clsFields' = [clsFields EXCEPT ![field] = v]
  /\ invoked' = {}
  /\ trace' = [h \in Handlers |-> <<>>]
  /\ escaped' = [h \in Handlers |-> FALSE]
  /\ result' = [h \in Handlers |-> "none"]
  /\ logged' = {}
  /\ op' = [name |-> "assign", h |-> "cls", again |-> FALSE]
  /\ UNCHANGED << scene, mounted, options, listeners, contextLost, restorationAttempts,
                  needsUpdate, handled, succeeded, lostSeen, detachCalled,
                  hookPairs, logging, globeVars, randomVars >>

NextFields ==
  \/ LostSignal
  \/ RestoredSignal
  \/ \E field \in FieldNames, v \in BOOLEAN : ClsAssign(field, v)
  \/ \E h \in Handlers : Detach(h)

SpecFields == InitFields /\ [][NextFields]_vars

\* ------------------------------------------- the globe's data preparation
\* JavaScript values as far as the sanitation looks at them: t is what
\* typeof yields; a number is finite (v, in tenths), NaN or infinite; a
\* string has its text s; a function is told by what calling it with 0 does
\* (k: it returns the string s, returns a number, or throws).
Num(n) == [t |-> "number", k |-> "finite", v |-> n, s |-> ""]

NaN == [t |-> "number", k |-> "nan", v |-> 0, s |-> ""]

Infinity == [t |-> "number", k |-> "inf", v |-> 0, s |-> ""]

Str(x) == [t |-> "string", k |-> "", v |-> 0, s |-> x]

Undefined == [t |-> "undefined", k |-> "", v |-> 0, s |-> ""]

Null == [t |-> "object", k |-> "", v |-> 0, s |-> ""]

Fn(k, x) == [t |-> "function", k |-> k, v |-> 0, s |-> x]

\* Number(string) for the strings of the model
StringToNumber(x) ==
  CASE x = ""         -> Num(0)
    [] x = "1"        -> Num(10)
    [] x = "2"        -> Num(20)
    [] x = "2.5"      -> Num(25)
    [] x = "Infinity" -> Infinity
    [] OTHER          -> NaN

\* Number.isFinite: false for everything that is not a number
NumberIsFinite(n) == n.t = "number" /\ n.k = "finite"

isFiniteNum(n) == n.t = "number" /\ NumberIsFinite(n)

coerceNum(raw, fallback) ==
  LET n == IF raw.t = "string" THEN StringToNumber(raw.s) ELSE raw
  IN  IF NumberIsFinite(n) THEN n ELSE fallback

\* Math.max(0, x) and Math.floor(x) of a finite number
MathMax0(x) == IF x.v < 0 THEN Num(0) ELSE x

MathFloor(x) == Num((x.v \div 10) * 10)

\* the fallback parameter of ensureColorString
FallbackColor == "#ffffff"

\* ensureColorString(c): the string returned, the flag afterwards and
\* whether the warning was written
ensureColorString(c, prod, flag) ==
  IF c.t = "string" \/ (c.t = "function" /\ c.k = "returnsString")
  THEN [value |-> c.s, flag |-> flag, warned |-> FALSE]
  ELSE [value |-> FallbackColor,
        flag  |-> flag \/ ~prod,
        warned |-> ~prod /\ ~flag]

Arc(order, startLat, startLng, endLat, endLng, arcAlt, color) ==
  [order |-> order, startLat |-> startLat, startLng |-> startLng,
   endLat |-> endLat, endLng |-> endLng, arcAlt |-> arcAlt, color |-> color]

\* the callback of arr.filter
FilterOk(d) ==
  /\ isFiniteNum(coerceNum(d.startLat, NaN))
  /\ isFiniteNum(coerceNum(d.startLng, NaN))
  /\ isFiniteNum(coerceNum(d.endLat, NaN))
  /\ isFiniteNum(coerceNum(d.endLng, NaN))
  /\ isFiniteNum(coerceNum(d.arcAlt, Num(0)))

\* variant of MapArc: the coordinates are copied as they are
MapArc_KeepsRaw(d, color) ==
  Arc(MathMax0(MathFloor(coerceNum(d.order, Num(0)))),
      d.startLat, d.startLng, d.endLat, d.endLng,
      MathMax0(coerceNum(d.arcAlt, Num(1))),
      Str(color))

\* the callback of .map, given what ensureColorString(d.color) returned
MapArc(d, color) ==
  Arc(MathMax0(MathFloor(coerceNum(d.order, Num(0)))),
      coerceNum(d.startLat, Num(0)),
      coerceNum(d.startLng, Num(0)),
      coerceNum(d.endLat, Num(0)),
      coerceNum(d.endLng, Num(0)),
      MathMax0(coerceNum(d.arcAlt, Num(1))),
      Str(color))

\* .map over the arcs the filter kept, from arc i on: ensureColorString is
\* called once per arc, in order, and carries loggedColorSanitize along
RECURSIVE MapArcs(_, _, _, _)
MapArcs(kept, i, prod, flag) ==
  IF i > Len(kept)
  THEN [out |-> <<>>, flag |-> flag, warnings |-> <<>>]
  ELSE LET c    == ensureColorString(kept[i].color, prod, flag)
           rest == MapArcs(kept, i + 1, prod, c.flag)
       IN  [out |-> <<MapArc(kept[i], c.value)>> \o rest.out,
            flag |-> rest.flag,
            warnings |-> (IF c.warned THEN <<"color">> ELSE <<>>) \o rest.warnings]

\* variant of NaNWarning: the flag is set only when the warning is written
NaNWarning_SetWhenWarned(dropped, prod, flag) ==
  IF ~prod /\ ~flag
  THEN [flag |-> dropped # 0,
        warnings |-> IF dropped # 0 THEN <<"arcs">> ELSE <<>>]
  ELSE [flag |-> flag, warnings |-> <<>>]

\* the end of sanitizePositions: the warning about dropped entries
NaNWarning(dropped, prod, flag) ==
  IF ~prod /\ ~flag
  THEN [flag |-> TRUE,
        warnings |-> IF dropped # 0 THEN <<"arcs">> ELSE <<>>]
  ELSE [flag |-> flag, warnings |-> <<>>]

\* sanitizePositions(a): the array returned, the array passed as it is after
\* the call, both flags and the warnings written, in order
sanitizePositions(a, prod, nanFlag, colorFlag) ==
  LET kept   == SelectSeq(a, FilterOk)
      mapped == MapArcs(kept, 1, prod, colorFlag)
      w      == NaNWarning(Len(a) - Len(mapped.out), prod, nanFlag)
  IN  [out |-> mapped.out,
       arg |-> a,
       nanFlag |-> w.flag,
       colorFlag |-> mapped.flag,
       warnings |-> mapped.warnings \o w.warnings]

\* defaultProps.pointSize
PointSize == 1

Point(order, color, lat, lng) ==
  [size |-> PointSize, order |-> order, color |-> color, lat |-> lat, lng |-> lng]

\* the loop of _buildData: two points per arc, start before end
RECURSIVE ArcPoints(_, _)
ArcPoints(arcs, i) ==
  IF i > Len(arcs) THEN <<>>
  ELSE << Point(arcs[i].order, arcs[i].color, arcs[i].startLat, arcs[i].startLng),
          Point(arcs[i].order, arcs[i].color, arcs[i].endLat, arcs[i].endLng) >>
         \o ArcPoints(arcs, i + 1)

\* a === b for two numbers
StrictEquals(a, b) == a = b /\ a.k # "nan"

\* a.findIndex(v2 => v2.lat === v.lat && v2.lng === v.lng), 0 for -1
FindIndex(a, v) ==
  IF \E j \in 1..Len(a) : StrictEquals(a[j].lat, v.lat) /\ StrictEquals(a[j].lng, v.lng)
  THEN CHOOSE j \in 1..Len(a) :
         /\ StrictEquals(a[j].lat, v.lat) /\ StrictEquals(a[j].lng, v.lng)
         /\ \A l \in 1..(j - 1) :
              ~(StrictEquals(a[l].lat, v.lat) /\ StrictEquals(a[l].lng, v.lng))
  ELSE 0

\* variant of FilteredPoints: nothing is filtered out
FilteredPoints_KeepsAll(points) == points

\* points.filter((v, i, a) => a.findIndex(...) === i)
RECURSIVE FilterFrom(_, _)
FilterFrom(points, i) ==
  IF i > Len(points) THEN <<>>
  ELSE (IF FindIndex(points, points[i]) = i THEN <<points[i]>> ELSE <<>>)
         \o FilterFrom(points, i + 1)

FilteredPoints(points) == FilterFrom(points, 1)

\* the arcs the model hands to the globe: valid ones that share end points,
\* numeric strings, missing and invalid members
ArcSamples ==
  { Arc(Num(10), Num(0), Num(0), Num(10), Num(20), Num(-5), Str("#ff0000")),
    Arc(Str("2.5"), Str("1"), Num(20), Num(0), Str(""), Undefined,
        Fn("returnsString", "#00ff00")),
    Arc(Num(-15), Num(10), Str("2"), Num(10), Num(20), NaN, Fn("throws", "")),
    Arc(Num(10), Num(0), Str("abc"), Num(10), Num(20), Num(5), Fn("returnsNumber", "")),
    Arc(Undefined, NaN, Num(0), Undefined, Infinity, Str("Infinity"), Str("red")) }

RECURSIVE SeqsUpTo(_, _)
SeqsUpTo(S, n) ==
  IF n = 0 THEN {<<>>}
  ELSE SeqsUpTo(S, n - 1)
         \cup {Append(q, x) : q \in {r \in SeqsUpTo(S, n - 1) : Len(r) = n - 1}, x \in S}

ArcArrays == SeqsUpTo(ArcSamples, MaxArcs)

\* the values the accessors hand to ensureColorString
ColorSamples ==
  {Str("#ff0000"), Fn("returnsString", "#00ff00"), Fn("throws", ""),
   Fn("returnsNumber", ""), Null, Undefined}

\* no context handler exists
HandlersIdle ==
  /\ scene = SceneOneMesh
  /\ options = [h \in Handlers |-> NoOptions]
  /\ mounted = {}
  /\ listeners = {}
  /\ contextLost = [h \in FlagHandlers |-> FALSE]
  /\ restorationAttempts = [h \in CounterHandlers |-> 0]
  /\ needsUpdate = NoMarks
  /\ invoked = {}
  /\ trace = [h \in Handlers |-> <<>>]
  /\ escaped = [h \in Handlers |-> FALSE]
  /\ result = [h \in Handlers |-> "none"]
  /\ handled = [h \in Handlers |-> 0]
  /\ succeeded = [h \in Handlers |-> 0]
  /\ lostSeen = FALSE
  /\ detachCalled = {}
  /\ hookPairs = 0
  /\ clsFields = Fields(NoOptions, TRUE)
  /\ logging = [h \in Handlers |-> FALSE]
  /\ logged = {}

\* the module has been loaded, in a production or a development build
InitGlobe ==
  /\ HandlersIdle
  /\ RandomIdle
  /\ production \in BOOLEAN
  /\ loggedNaNSanitize = FALSE
  /\ loggedColorSanitize = FALSE
  /\ console = <<>>
  /\ passed = <<>>
  /\ data = <<>>
  /\ sanitized = <<>>
  /\ globeData = <<>>
  /\ colorResult = ""
  /\ op = [name |-> "init", h |-> "Globe", again |-> FALSE]

\* startAnimation, which the effect on globeData runs once _buildData has
\* set the point list, calls sanitizePositions(data) with the same data
SanitizeCall ==
  /\ op.name # "init"
  /\ \E r \in {sanitizePositions(data, production, loggedNaNSanitize, loggedColorSanitize)} :
      /\ passed' = data
      /\ data' = r.arg
      /\ sanitized' = r.out
      /\ loggedNaNSanitize' = r.nanFlag
      /\ loggedColorSanitize' = r.colorFlag
      /\ console' = console \o r.warnings
      /\ op' = [name |-> "sanitizePositions", h |-> "Globe", again |-> FALSE]
      /\ UNCHANGED << production, globeData, colorResult, handlerVars, randomVars >>

\* a Globe component is mounted with the array a as its data and its first
\* effect runs _buildData
BuildData ==
  \E a \in ArcArrays :
    \E r \in {sanitizePositions(a, production, loggedNaNSanitize, loggedColorSanitize)} :
      /\ passed' = a
      /\ data' = r.arg
      /\ sanitized' = r.out
      /\ loggedNaNSanitize' = r.nanFlag
      /\ loggedColorSanitize' = r.colorFlag
      /\ console' = console \o r.warnings
      /\ globeData' = FilteredPoints(ArcPoints(r.out, 1))
      /\ op' = [name |-> "_buildData", h |-> "Globe", again |-> FALSE]
      /\ UNCHANGED << production, colorResult, handlerVars, randomVars >>

\* an accessor of the globe (arcColor, pointColor, ringColor) calls
\* ensureColorString
EnsureColorCall ==
  \E c \in ColorSamples :
    \E r \in {ensureColorString(c, production, loggedColorSanitize)} :
      /\ colorResult' = r.value
      /\ loggedColorSanitize' = r.flag
      /\ console' = console \o (IF r.warned THEN <<"color">> ELSE <<>>)
      /\ op' = [name |-> "ensureColorString", h |-> "Globe", again |-> FALSE]
      /\ UNCHANGED << production, loggedNaNSanitize, passed, data, sanitized, globeData,
                      handlerVars, randomVars >>

NextGlobe ==
  \/ SanitizeCall
  \/ BuildData
  \/ EnsureColorCall

SpecGlobe == InitGlobe /\ [][NextGlobe]_vars

\* ------------------------------------------------------- genRandomNumbers
\* Math.random() yields k / RandomSteps for some k in 0..RandomSteps-1
RandomSteps == MaxValue + 1

\* Math.floor(Math.random() * (max - min)) + min
RandomNumber(k, lo, hi) == ((k * (hi - lo)) \div RandomSteps) + lo

\* variant of Push: the number is appended whether or not arr holds it
Push_NoCheck(a, r) == Append(a, r)

\* if (arr.indexOf(r) === -1) arr.push(r)
Push(a, r) == IF r \in Range(a) THEN a ELSE Append(a, r)

\* genRandomNumbers(min, max, count) has been called and is at its loop test
InitRandom ==
  /\ HandlersIdle
  /\ GlobeIdle
  /\ min \in 0..1
  /\ max \in 0..MaxValue
  /\ count \in -1..MaxCount
  /\ arr = <<>>
  /\ pc = "loop"
  /\ op = [name |-> "genRandomNumbers", h |-> "Globe", again |-> FALSE]

\* one iteration of the while loop in which Math.random() yields
\* k / RandomSteps
Draw(k) ==
  /\ pc = "loop"
  /\ Len(arr) < count
  /\ arr' = Push(arr, RandomNumber(k, min, max))
  /\ UNCHANGED << min, max, count, pc, op, handlerVars, globeVars >>

\* the loop test fails: return arr
Return ==
  /\ pc = "loop"
  /\ ~(Len(arr) < count)
  /\ pc' = "done"
  /\ UNCHANGED << min, max, count, arr, op, handlerVars, globeVars >>

NextRandom ==
  \/ \E k \in 0..(RandomSteps - 1) : Draw(k)
  \/ Return

\* fair random choice: a number that Math.random() can produce and that
\* would change arr is eventually produced; the loop test is eventually made
SpecRandom ==
  /\ InitRandom
  /\ [][NextRandom]_vars
  /\ \A k \in 0..(RandomSteps - 1) : WF_vars(Draw(k))
  /\ WF_vars(Return)

\* ================================================================ claims
Signals == {"lost", "restored"}

\* handler h ran on the signal of the last step
RanOn(h, signal) == op.name = signal /\ h \in invoked

\* the detachment handle of handler h has been called
Detached(h) == h \in detachCalled

\* position of a step in a trace, 0 when absent
Pos(t, step) ==
  IF step \in Range(t) THEN CHOOSE i \in 1..Len(t) : t[i] = step ELSE 0

\* every material of every mesh, every attribute the mesh's geometry has and
\* every texture slot its materials have carry needsUpdate
PrimedFully(sc, nu) ==
  \A i \in 1..Len(sc.nodes) :
    LET n == sc.nodes[i] IN
    n.isMesh =>
      /\ \A k \in 1..Len(n.material) :
           /\ n.material[k] \in nu.mat
           /\ \A s \in sc.mats[n.material[k]].slots : <<n.material[k], s>> \in nu.tex
      /\ n.hasGeometry => \A a \in n.attrs : <<i, a>> \in nu.attr

\* C1: in the hook, the class and the globe's WebGLRendererConfig the
\* context-lost flag is true right after every lost signal the handler
\* handled and false right after every restored signal it handled whose
\* restoration procedure completed without error.
C1_FlagFollowsSignal ==
  \A h \in FlagHandlers :
    /\ RanOn(h, "lost") => contextLost[h]
    /\ (RanOn(h, "restored") /\ result[h] = "ok") => ~contextLost[h]

\* the class has handled lost, restored, lost, restored and the last
\* restoration succeeded
C1_Witness ==
  /\ RanOn("cls", "restored") /\ result["cls"] = "ok" /\ ~contextLost["cls"]
  /\ lostSeen /\ handled["cls"] = 2

\* C2 as stated: in the hook and in the class the recovery counter equals
\* the number of successfully handled restorations.
C2_CounterEqualsSuccesses ==
  \A h \in CounterHandlers : restorationAttempts[h] = succeeded[h]

\* C2 amended: the counter never decreases and only a handled restored signal
\* changes it; the hook's counter equals the number of restored signals it
\* handled (failed restorations included), the class's counter the number of
\* restored signals whose restoration procedure completed without error.
C2_CounterCounts ==
  /\ [](/\ restorationAttempts["hook"] = handled["hook"]
        /\ restorationAttempts["cls"] = succeeded["cls"])
  /\ [][\A h \in CounterHandlers :
          /\ restorationAttempts'[h] >= restorationAttempts[h]
          /\ restorationAttempts'[h] # restorationAttempts[h]
               => op'.name = "restored" /\ h \in invoked']_vars

\* the hook handled two restored signals of which one failed, then a lost
\* signal
C2_Witness ==
  /\ handled["hook"] = 2 /\ succeeded["hook"] = 1 /\ restorationAttempts["hook"] = 2
  /\ op.name = "lost"

\* C3: when the hook handles a restored signal and the restoration procedure
\* throws, restorationAttempts is incremented all the same, the increment
\* precedes every step of the procedure, and onContextRestored is not called.
C3_HookCountsFailedRestoration ==
  [][(op'.name = "restored" /\ "hook" \in invoked' /\ result'["hook"] = "failed")
       => /\ restorationAttempts'["hook"] = restorationAttempts["hook"] + 1
          /\ trace'["hook"][2] = "restorationAttempts++"
          /\ "onContextRestored" \notin Range(trace'["hook"])]_vars

\* the hook's first restored signal, customRestoration threw
C3_Witness ==
  /\ RanOn("hook", "restored") /\ result["hook"] = "failed"
  /\ options["hook"].customRestoration /\ options["hook"].onContextRestored
  /\ "traverse" \in Range(trace["hook"])
  /\ "customRestoration" \notin Range(trace["hook"])
  /\ restorationAttempts["hook"] = 1

\* C4: on a restored signal the hook and setupWebGLContextHandler (the class
\* through it) call onContextRestored exactly when one was supplied and the
\* restoration procedure completed; when a step of the procedure throws no
\* exception leaves the signal handler.
C4_RestoredCallbackIffSuccess ==
  \A h \in {"hook", "setup", "cls"} :
    RanOn(h, "restored") =>
      /\ "onContextRestored" \in Range(trace[h])
           <=> (result[h] = "ok" /\ options[h].onContextRestored)
      /\ result[h] = "failed" => ~escaped[h]

\* setup handled a restored signal whose customRestoration threw
C4_Witness ==
  /\ RanOn("setup", "restored") /\ result["setup"] = "failed"
  /\ options["setup"].customRestoration /\ options["setup"].onContextRestored
  /\ "traverse" \in Range(trace["setup"])
  /\ "customRestoration" \notin Range(trace["setup"])
  /\ ~escaped["setup"]

\* C5: an exception thrown by the caller's onContextLost or onContextRestored
\* never leaves the lost / restored signal handler.
C5_CallbackErrorsSwallowed ==
  \A h \in Handlers : ~escaped[h]

\* C6: a handler that handles a lost signal calls preventDefault first, then
\* sets its flag, then calls the caller's onContextLost, which it calls
\* exactly when one was supplied.
C6_LostOrder ==
  \A h \in Handlers :
    RanOn(h, "lost") =>
      /\ trace[h][1] = "preventDefault"
      /\ h \in FlagHandlers =>
           /\ Pos(trace[h], "contextLost:=true") = 2
           /\ contextLost[h]
      /\ ("onContextLost" \in Range(trace[h])) <=> options[h].onContextLost
      /\ options[h].onContextLost => Pos(trace[h], "onContextLost") = Len(trace[h])

\* the class handled a lost signal with a caller callback
C6_Witness ==
  /\ RanOn("cls", "lost") /\ options["cls"].onContextLost
  /\ trace["cls"] = <<"preventDefault", "contextLost:=true", "onContextLost">>

\* C7: a detachment handle changes neither flag nor counter, and a signal
\* delivered after a handler was detached does not reach it: flag and
\* counter keep their values, no callback and no restoration run.
C7_DetachFreezes ==
  [][/\ op'.name = "detach"
          => contextLost' = contextLost /\ restorationAttempts' = restorationAttempts
     /\ \A h \in Handlers :
          (Detached(h) /\ op'.name \in Signals)
            => /\ h \notin invoked'
               /\ trace'[h] = <<>>
               /\ result'[h] = "none"
               /\ h \in FlagHandlers => contextLost'[h] = contextLost[h]
               /\ h \in CounterHandlers
                    => restorationAttempts'[h] = restorationAttempts[h]]_vars

\* a handler detached while its flag was set; a restored signal was then
\* delivered and ran the handler that is still attached
C7_Witness ==
  \E h \in FlagHandlers :
    /\ Detached(h) /\ contextLost[h]
    /\ op.name = "restored" /\ invoked # {}

\* C8: calling a detachment handle again changes nothing, and a detachment
\* handle removes only its own handler's listeners.
C8_DetachIdempotent ==
  [][op'.name = "detach"
       => /\ \A sig \in Signals :
               /\ <<sig, op'.h>> \notin listeners'
               /\ \A g \in Handlers \ {op'.h} :
                    <<sig, g>> \in listeners' <=> <<sig, g>> \in listeners
          /\ op'.again => listeners' = listeners
          /\ contextLost' = contextLost
          /\ restorationAttempts' = restorationAttempts
          /\ needsUpdate' = needsUpdate]_vars

\* a detachment handle was called a second time while another handler is
\* still subscribed to both signals
C8_Witness ==
  /\ op.name = "detach" /\ op.again
  /\ \E g \in Handlers \ {op.h} :
       <<"lost", g>> \in listeners /\ <<"restored", g>> \in listeners

\* C9 as stated: forceRestore called before any lost signal runs the whole
\* procedure and increments the recovery counter.
C9_ForceRestoreCounts ==
  [][(op'.name = "forceRestore" /\ ~lostSeen' /\ result'["hook"] = "ok")
       => /\ PrimedFully(scene, needsUpdate')
          /\ restorationAttempts'["hook"] = restorationAttempts["hook"] + 1]_vars

\* C9 amended: forceRestore called before any lost signal, when no step
\* throws, runs the whole procedure (renderer settings, traversal marking
\* materials, attributes and textures, customRestoration when supplied,
\* redraw) and leaves the recovery counter and the flag as they were.
C9_ForceRestorePrimes ==
  [][(op'.name = "forceRestore" /\ ~lostSeen' /\ result'["hook"] = "ok")
       => /\ PrimedFully(scene, needsUpdate')
          /\ {"setPixelRatio", "setSize", "traverse", "invalidate"}
               \subseteq Range(trace'["hook"])
          /\ ("customRestoration" \in Range(trace'["hook"]))
               <=> options["hook"].customRestoration
          /\ trace'["hook"][Len(trace'["hook"])] = "invalidate"
          /\ restorationAttempts' = restorationAttempts
          /\ contextLost' = contextLost]_vars

\* forceRestore succeeded, no signal was ever delivered, the scene is marked
\* and the counter is 0
C9_Witness ==
  /\ op.name = "forceRestore" /\ ~lostSeen /\ result["hook"] = "ok"
  /\ handled["hook"] = 0
  /\ PrimedFully(scene, needsUpdate) /\ needsUpdate.tex # {}
  /\ restorationAttempts["hook"] = 0

\* C10: flag and counter of a handler change only in a step in which that
\* handler handles a lost or a restored signal; forceRestore and detachment
\* change neither.
C10_OnlySignalsMutate ==
  [][\A h \in Handlers :
       (\/ h \in FlagHandlers /\ contextLost'[h] # contextLost[h]
        \/ h \in CounterHandlers /\ restorationAttempts'[h] # restorationAttempts[h])
         => op'.name \in Signals /\ h \in invoked']_vars

\* forceRestore ran during a loss window after one recovery: flag still
\* set, counter still 1
C10_Witness ==
  /\ op.name = "forceRestore" /\ result["hook"] = "ok"
  /\ contextLost["hook"] /\ restorationAttempts["hook"] = 1

\* handler h ran its restoration procedure in the last step, on a restored
\* signal or through forceRestore
RanProcedure(h) == result[h] # "none"

\* step a is in the trace and precedes step b
Before(t, a, b) == Pos(t, a) > 0 /\ Pos(t, a) < Pos(t, b)

\* every material of every mesh and every attribute its geometry has carry
\* needsUpdate
MeshesFlagged(sc, nu) ==
  \A i \in 1..Len(sc.nodes) :
    LET n == sc.nodes[i] IN
    n.isMesh =>
      /\ \A k \in 1..Len(n.material) : n.material[k] \in nu.mat
      /\ n.hasGeometry => \A a \in n.attrs \cap Attrs : <<i, a>> \in nu.attr

\* every texture slot that every material of every mesh has carries
\* needsUpdate
TexturesFlagged(sc, nu) ==
  \A i \in 1..Len(sc.nodes) :
    LET n == sc.nodes[i] IN
    n.isMesh =>
      \A k \in 1..Len(n.material) :
        \A s \in sc.mats[n.material[k]].slots : <<n.material[k], s>> \in nu.tex

\* needsUpdate is set only on attributes and texture slots that exist
OnlyPresentMarked(sc, nu) ==
  /\ \A x \in nu.attr :
       x[1] \in 1..Len(sc.nodes) /\ sc.nodes[x[1]].hasGeometry
         /\ x[2] \in sc.nodes[x[1]].attrs
  /\ \A x \in nu.tex :
       x[1] \in 1..Len(sc.mats) /\ x[2] \in sc.mats[x[1]].slots
  /\ nu.mat \subseteq 1..Len(sc.mats)

\* C11: after a handler's restoration completed without error every mesh
\* has each of its materials (single or array element) and each attribute
\* present among position, normal, uv, color flagged needsUpdate, and no
\* absent attribute is touched.
C11_MeshesFlagged ==
  \A h \in Handlers :
    (RanOn(h, "restored") /\ result[h] = "ok")
      => MeshesFlagged(scene, needsUpdate) /\ OnlyPresentMarked(scene, needsUpdate)

\* C12: after a restoration of the hook or of setupWebGLContextHandler (the
\* class through it) completed without error, every texture slot present on
\* every material of every mesh is flagged needsUpdate and no absent slot is
\* touched.
C12_TexturesFlagged ==
  \A h \in {"hook", "setup", "cls"} :
    (RanOn(h, "restored") /\ result[h] = "ok")
      => TexturesFlagged(scene, needsUpdate) /\ OnlyPresentMarked(scene, needsUpdate)

\* C13 as stated: every run of a restoration procedure has set pixel ratio,
\* size and clear color before it traverses the scene, in the hook, in
\* setupWebGLContextHandler and in the globe.
C13_BaselineWithClearColor ==
  \A h \in Handlers :
    (RanProcedure(h) /\ "traverse" \in Range(trace[h]))
      => /\ Before(trace[h], "setPixelRatio", "traverse")
         /\ Before(trace[h], "setSize", "traverse")
         /\ Before(trace[h], "setClearColor", "traverse")

\* C13 amended: every run of a restoration procedure that traverses the
\* scene has set pixel ratio and size before; a run that completed did
\* traverse; the clear color is set, before the traversal, by the globe's
\* WebGLRendererConfig only.
C13_BaselineBeforeTraversal ==
  \A h \in Handlers :
    RanProcedure(h) =>
      /\ result[h] = "ok" => "traverse" \in Range(trace[h])
      /\ "traverse" \in Range(trace[h])
           => /\ Before(trace[h], "setPixelRatio", "traverse")
              /\ Before(trace[h], "setSize", "traverse")
              /\ h = "globe" => Before(trace[h], "setClearColor", "traverse")
      /\ h # "globe" => "setClearColor" \notin Range(trace[h])

\* the hook completed a restoration on a restored signal without ever
\* setting the clear color
C13_Witness ==
  /\ RanOn("hook", "restored") /\ result["hook"] = "ok"
  /\ Before(trace["hook"], "setSize", "traverse")
  /\ "setClearColor" \notin Range(trace["hook"])

\* the handlers built on restoreScene with its optional customRestoration
ProcedureHandlers == {"hook", "setup", "cls"}

\* number of occurrences of a step in a trace
Count(t, step) == Cardinality({i \in 1..Len(t) : t[i] = step})

\* the trace holds a redraw request
Redrawn(t) == "invalidate" \in Range(t) \/ "render" \in Range(t)

\* C14 as stated: a customRestoration that ran did so after the flag and
\* counter update, after renderer configuration and traversal, before the
\* redraw and before onContextRestored.
C14_CustomAfterStateUpdate ==
  \A h \in ProcedureHandlers :
    (RanOn(h, "restored") /\ "customRestoration" \in Range(trace[h]))
      => /\ h \in FlagHandlers
              => Before(trace[h], "contextLost:=false", "customRestoration")
         /\ h \in CounterHandlers
              => Before(trace[h], "restorationAttempts++", "customRestoration")
         /\ Before(trace[h], "setSize", "customRestoration")
         /\ Before(trace[h], "traverse", "customRestoration")
         /\ Redrawn(trace[h]) =>
              \/ Before(trace[h], "customRestoration", "invalidate")
              \/ Before(trace[h], "customRestoration", "render")
         /\ "onContextRestored" \in Range(trace[h])
              => Before(trace[h], "customRestoration", "onContextRestored")

\* C14 amended: customRestoration runs only when supplied, at most once per
\* run and once in every run that completed; it runs after renderer
\* configuration and traversal (the meshes are marked), before the redraw
\* and before onContextRestored; the hook has updated flag and counter
\* before it, the class updates them only after it.
C14_CustomOrder ==
  \A h \in ProcedureHandlers :
    RanProcedure(h) =>
      /\ Count(trace[h], "customRestoration") <= 1
      /\ "customRestoration" \in Range(trace[h]) => options[h].customRestoration
      /\ (result[h] = "ok" /\ options[h].customRestoration)
           => Count(trace[h], "customRestoration") = 1
      /\ "customRestoration" \in Range(trace[h])
           => /\ Before(trace[h], "setPixelRatio", "customRestoration")
              /\ Before(trace[h], "setSize", "customRestoration")
              /\ Before(trace[h], "traverse", "customRestoration")
              /\ MeshesFlagged(scene, needsUpdate)
              /\ "invalidate" \in Range(trace[h])
                   => Before(trace[h], "customRestoration", "invalidate")
              /\ "render" \in Range(trace[h])
                   => Before(trace[h], "customRestoration", "render")
              /\ "onContextRestored" \in Range(trace[h])
                   => Before(trace[h], "customRestoration", "onContextRestored")
              /\ (h = "hook" /\ op.name = "restored")
                   => /\ Before(trace[h], "contextLost:=false", "customRestoration")
                      /\ Before(trace[h], "restorationAttempts++", "customRestoration")
              /\ (h = "cls" /\ result[h] = "ok")
                   => /\ Before(trace[h], "customRestoration", "contextLost:=false")
                      /\ Before(trace[h], "customRestoration", "restorationAttempts++")

\* the class completed a restoration with customRestoration, its flag and
\* counter were updated after customRestoration and the redraw
C14_Witness ==
  /\ RanOn("cls", "restored") /\ result["cls"] = "ok"
  /\ options["cls"].customRestoration /\ options["cls"].camera
  /\ Before(trace["cls"], "customRestoration", "render")
  /\ Before(trace["cls"], "render", "contextLost:=false")

\* C15: a restoration procedure of the hook or of setupWebGLContextHandler
\* that completed without error has requested a redraw, and did so before
\* onContextRestored; this with or without the optional camera.
C15_RedrawBeforeSuccess ==
  \A h \in ProcedureHandlers :
    (RanProcedure(h) /\ result[h] = "ok")
      => /\ Redrawn(trace[h])
         /\ "onContextRestored" \in Range(trace[h])
              => \/ Before(trace[h], "invalidate", "onContextRestored")
                 \/ Before(trace[h], "render", "onContextRestored")

\* the calls a restoration procedure makes
ProcedureCalls == FailPoints \ {"none"}

\* C16: a restoration procedure runs only in a step that delivers a
\* restored signal (once in each subscribed handler) or calls forceRestore
\* (once, in the hook), each of its calls is made at most once in that run,
\* failed or not, and no other step touches the scene.
C16_NoRetry ==
  /\ [](\A h \in Handlers :
          /\ \A c \in ProcedureCalls : Count(trace[h], c) <= 1
          /\ RanProcedure(h) => op.name \in {"restored", "forceRestore"}
          /\ op.name = "restored" => (RanProcedure(h) <=> h \in invoked)
          /\ op.name = "forceRestore" => (RanProcedure(h) <=> h = "hook"))
  /\ [][needsUpdate' # needsUpdate => op'.name \in {"restored", "forceRestore"}]_vars

\* the hook's only restoration failed after its first calls; the next
\* operation was a lost signal and ran no procedure
C16_Witness ==
  /\ RanOn("hook", "lost") /\ ~RanProcedure("hook")
  /\ handled["hook"] = 1 /\ succeeded["hook"] = 0
  /\ needsUpdate.mat # {}

C18_ForceRestoreResult ==
  op.name = "forceRestore" =>
    /\ result["hook"] \in {"ok", "failed"}
    /\ ~escaped["hook"]
    /\ result["hook"] = "ok"
         <=> /\ {"setPixelRatio", "setSize", "traverse", "invalidate"}
                  \subseteq Range(trace["hook"])
             /\ options["hook"].customRestoration
                  => "customRestoration" \in Range(trace["hook"])

\* forceRestore returned false after the traversal had completed
C18_Witness ==
  /\ op.name = "forceRestore" /\ result["hook"] = "failed"
  /\ "traverse" \in Range(trace["hook"])
  /\ "invalidate" \notin Range(trace["hook"])

\* C19: a lost signal delivered right after a lost signal leaves flag and
\* counter of every handler as the first one left them, and each handler
\* that handles it calls preventDefault once and onContextLost once when
\* one was supplied.
C19_SecondLostIdempotent ==
  [][(op.name = "lost" /\ op'.name = "lost")
       => /\ contextLost' = contextLost
          /\ restorationAttempts' = restorationAttempts
          /\ \A h \in invoked' :
               /\ Count(trace'[h], "preventDefault") = 1
               /\ Count(trace'[h], "onContextLost")
                    = (IF options[h].onContextLost THEN 1 ELSE 0)]_vars

\* the hook handled a second lost signal in a row
C19_Witness ==
  /\ RanOn("hook", "lost") /\ op.again
  /\ contextLost["hook"]
  /\ Count(trace["hook"], "preventDefault") = 1

\* C20: in the globe's WebGLRendererConfig a handled restored signal leaves
\* contextLost false and lets no exception escape whatever call of the try
\* block threw, and keeps the listeners subscribed; a size change re-applies
\* the renderer settings and leaves the listeners and the flag alone.
C20_GlobeRestoredClearsFlag ==
  [][/\ (op'.name = "restored" /\ "globe" \in invoked')
          => /\ ~contextLost'["globe"]
             /\ ~escaped'["globe"]
             /\ listeners' = listeners
     /\ op'.name = "resize"
          => /\ listeners' = listeners
             /\ contextLost' = contextLost
             /\ trace'["globe"] = <<"setPixelRatio", "setSize", "setClearColor">>]_vars

\* the globe handled a restored signal after a loss, a call of its try
\* block threw, the flag is cleared and its listeners are still subscribed
C20_Witness ==
  /\ RanOn("globe", "restored") /\ result["globe"] = "failed"
  /\ lostSeen /\ ~contextLost["globe"]
  /\ {<<"lost", "globe">>, <<"restored", "globe">>} \subseteq listeners

\* C22: in the hook every handled restored signal leaves contextLost false,
\* whether or not the restoration procedure succeeded; when the procedure
\* threw, the flag is false although onContextRestored was not invoked.
C22_HookRestoredClearsFlag ==
  RanOn("hook", "restored") =>
    /\ ~contextLost["hook"]
    /\ trace["hook"][1] = "contextLost:=false"
    /\ result["hook"] = "failed" => "onContextRestored" \notin Range(trace["hook"])

\* a lost signal, then a restored signal whose restoration threw in the
\* hook, which was given an onContextRestored: the flag is false
C22_Witness ==
  /\ RanOn("hook", "restored") /\ result["hook"] = "failed"
  /\ lostSeen /\ handled["hook"] = 1
  /\ options["hook"].onContextRestored
  /\ ~contextLost["hook"]
  /\ "onContextRestored" \notin Range(trace["hook"])

CustomThrew(h) ==
  /\ RanProcedure(h)
  /\ options[h].customRestoration
  /\ "traverse" \in Range(trace[h])
  /\ "customRestoration" \notin Range(trace[h])

\* C25: when customRestoration throws, the run requests no redraw (neither
\* invalidate nor renderer.render), the procedure reports failure so that
\* onContextRestored is not called, and the needsUpdate marks the traversal
\* applied are kept: every mesh is still flagged, and no step ever removes a
\* mark.
C25_CustomThrowKeepsMarks ==
  /\ [](\A h \in ProcedureHandlers :
          CustomThrew(h)
            => /\ result[h] = "failed"
               /\ ~Redrawn(trace[h])
               /\ "onContextRestored" \notin Range(trace[h])
               /\ ~escaped[h]
               /\ MeshesFlagged(scene, needsUpdate)
               /\ h = "hook" => TexturesFlagged(scene, needsUpdate))
  /\ [][\A h \in ProcedureHandlers :
          CustomThrew(h)' =>
            /\ needsUpdate.mat \subseteq needsUpdate'.mat
            /\ needsUpdate.attr \subseteq needsUpdate'.attr
            /\ needsUpdate.tex \subseteq needsUpdate'.tex]_vars

\* the first restoration of setupWebGLContextHandler, given a camera, failed
\* in customRestoration: no render, every mesh flagged
C25_Witness ==
  /\ CustomThrew("setup") /\ options["setup"].camera
  /\ handled["setup"] = 1 /\ result["setup"] = "failed"
  /\ "render" \notin Range(trace["setup"])
  /\ MeshesFlagged(scene, needsUpdate)

\* the listeners of the hook instance
HookListeners == {"lost", "restored"} \X {"hook"}

\* C24: while an instance of the hook is mounted, whatever re-renders
\* changed the dependencies of its effect, exactly one pair of listeners of
\* that instance is subscribed on the canvas, and none after it unmounted; a
\* re-subscription leaves contextLost and restorationAttempts as they were;
\* every signal delivered while the instance is mounted is handled by it
\* exactly once.
C24_HookOneListenerPair ==
  /\ []("hook" \in mounted =>
          IF "hook" \in detachCalled
          THEN hookPairs = 0 /\ HookListeners \cap listeners = {}
          ELSE hookPairs = 1 /\ HookListeners \subseteq listeners)
  /\ [][op'.name = "rerender"
          => /\ contextLost' = contextLost
             /\ restorationAttempts' = restorationAttempts
             /\ hookPairs' = hookPairs
             /\ listeners' = listeners]_vars
  /\ [][(op'.name \in Signals /\ "hook" \in mounted /\ "hook" \notin detachCalled)
          => /\ "hook" \in invoked'
             /\ op'.name = "lost"
                  => Count(trace'["hook"], "preventDefault") = hookPairs
             /\ op'.name = "restored"
                  => /\ Count(trace'["hook"], "restorationAttempts++") = hookPairs
                     /\ restorationAttempts'["hook"] = restorationAttempts["hook"] + 1]_vars

\* the hook handled a restored and a lost signal and then re-subscribed:
\* flag and counter kept their values, one pair of listeners is subscribed
C24_Witness ==
  /\ op.name = "rerender"
  /\ contextLost["hook"] /\ restorationAttempts["hook"] = 1
  /\ hookPairs = 1 /\ HookListeners \subseteq listeners

\* C26: the class reads its public fields onContextLost and
\* onContextRestored when a signal arrives, so the value last assigned is
\* the one called; customRestoration and enableLogging are the values the
\* constructor was given, whatever was assigned to the public fields later;
\* an assignment changes nothing but the field.
C26_FieldsLiveOrCaptured ==
  /\ [](/\ RanOn("cls", "lost")
             => ("onContextLost" \in Range(trace["cls"]) <=> clsFields.onContextLost)
        /\ (RanOn("cls", "restored") /\ result["cls"] = "ok")
             => ("onContextRestored" \in Range(trace["cls"])
                   <=> clsFields.onContextRestored)
        /\ RanOn("cls", "restored")
             => /\ "customRestoration" \in Range(trace["cls"])
                     => options["cls"].customRestoration
                /\ (result["cls"] = "ok" /\ options["cls"].customRestoration)
                     => "customRestoration" \in Range(trace["cls"])
        /\ "cls" \in invoked => ("cls" \in logged <=> logging["cls"]))
  /\ [][/\ options' = options
        /\ logging' = logging
        /\ op'.name = "assign"
             => /\ contextLost' = contextLost
                /\ restorationAttempts' = restorationAttempts
                /\ listeners' = listeners
                /\ needsUpdate' = needsUpdate]_vars

\* the class was created without callbacks, without customRestoration and
\* with logging; all four public fields were assigned since; a restoration
\* completed: the assigned onContextRestored was called, the assigned
\* customRestoration was not, and the console was written to
C26_Witness ==
  /\ RanOn("cls", "restored") /\ result["cls"] = "ok"
  /\ options["cls"] = NoOptions /\ logging["cls"]
  /\ clsFields = Fields(Options(TRUE, TRUE, TRUE, FALSE), FALSE)
  /\ "onContextRestored" \in Range(trace["cls"])
  /\ "customRestoration" \notin Range(trace["cls"])
  /\ "cls" \in logged

\* the operations that call sanitizePositions
SanitizeOps == {"sanitizePositions", "_buildData"}

\* the number a member denotes: itself, or what its text converts to
NumericValue(x) == IF x.t = "string" THEN StringToNumber(x.s) ELSE x

CoercesFinite(x) == NumberIsFinite(NumericValue(x))

\* the four coordinates of an arc coerce to finite numbers
CoordsFinite(d) ==
  /\ CoercesFinite(d.startLat) /\ CoercesFinite(d.startLng)
  /\ CoercesFinite(d.endLat) /\ CoercesFinite(d.endLng)

\* the four coordinates and arcAlt coerce to finite numbers, a missing
\* arcAlt counting as 0
FiveFinite(d) ==
  /\ CoordsFinite(d)
  /\ d.arcAlt = Undefined \/ CoercesFinite(d.arcAlt)

\* a returned arc: finite numeric coordinates, arcAlt >= 0, order a
\* non-negative integer, color a string
ValidArc(o) ==
  /\ isFiniteNum(o.startLat) /\ isFiniteNum(o.startLng)
  /\ isFiniteNum(o.endLat) /\ isFiniteNum(o.endLng)
  /\ isFiniteNum(o.arcAlt) /\ o.arcAlt.v >= 0
  /\ isFiniteNum(o.order) /\ o.order.v >= 0 /\ o.order.v % 10 = 0
  /\ o.color.t = "string"

\* the returned arc o is the input arc d with its coordinates as numbers
SameArc(o, d) ==
  /\ o.startLat = NumericValue(d.startLat) /\ o.startLng = NumericValue(d.startLng)
  /\ o.endLat = NumericValue(d.endLat) /\ o.endLng = NumericValue(d.endLng)

\* C27 as stated: sanitizePositions returns, in order, exactly the input
\* arcs whose four coordinates and arcAlt coerce to finite numbers (a
\* missing arcAlt counting as 0), each returned arc is valid, and the input
\* array is as it was.
C27_KeepsFiveFinite ==
  op.name \in SanitizeOps =>
    LET kept == SelectSeq(passed, FiveFinite) IN
    /\ Len(sanitized) = Len(kept)
    /\ \A i \in 1..Len(sanitized) :
         i <= Len(kept) => SameArc(sanitized[i], kept[i]) /\ ValidArc(sanitized[i])
    /\ data = passed

\* C27 amended: sanitizePositions returns, in order, exactly the input arcs
\* whose four coordinates coerce to finite numbers; arcAlt never causes an
\* arc to be dropped: one that coerces to a finite number is kept, raised to
\* 0 when negative, any other (missing, NaN, infinite, not numeric) is
\* replaced by 0.1; each returned arc is valid and the input array is as it
\* was.
C27_KeepsFiniteCoordinates ==
  op.name \in SanitizeOps =>
    LET kept == SelectSeq(passed, CoordsFinite) IN
    /\ Len(sanitized) = Len(kept)
    /\ \A i \in 1..Len(sanitized) :
         /\ SameArc(sanitized[i], kept[i])
         /\ ValidArc(sanitized[i])
         /\ sanitized[i].arcAlt =
              (IF CoercesFinite(kept[i].arcAlt)
               THEN MathMax0(NumericValue(kept[i].arcAlt)) ELSE Num(1))
    /\ data = passed

\* an array of two arcs was sanitized: the first was dropped for a
\* coordinate that is not numeric, the second kept although its arcAlt is
\* NaN, and given the altitude 0.1
C27_Witness ==
  /\ op.name = "sanitizePositions"
  /\ Len(passed) = 2 /\ Len(sanitized) = 1
  /\ ~CoordsFinite(passed[1])
  /\ passed[2].arcAlt = NaN
  /\ sanitized[1].arcAlt = Num(1)

\* C29: across any sequence of calls of sanitizePositions and
\* ensureColorString the warning about invalid arc entries and the warning
\* about an invalid color are each written at most once, and never in
\* production; the flags loggedNaNSanitize and loggedColorSanitize never
\* return to false; every call of sanitizePositions outside production
\* leaves loggedNaNSanitize set, whether or not it dropped an entry.
C29_WarningsOneShot ==
  /\ [](/\ Count(console, "arcs") <= 1
        /\ Count(console, "color") <= 1
        /\ production => console = <<>>
        /\ "arcs" \in Range(console) => loggedNaNSanitize
        /\ "color" \in Range(console) => loggedColorSanitize)
  /\ [][/\ loggedNaNSanitize => loggedNaNSanitize'
        /\ loggedColorSanitize => loggedColorSanitize'
        /\ (op'.name \in SanitizeOps /\ ~production) => loggedNaNSanitize']_vars

\* outside production the first call of sanitizePositions dropped nothing
\* and set the flag; the last call dropped an entry and met an invalid
\* color: only the color warning has been written
C29_Witness ==
  /\ ~production /\ op.name \in SanitizeOps
  /\ Len(sanitized) < Len(passed)
  /\ loggedNaNSanitize /\ loggedColorSanitize
  /\ console = <<"color">>

\* the start and end points of the sanitized arcs, in arc order, start
\* before end, as <<order, lat, lng>>
RECURSIVE EndPoints(_)
EndPoints(arcs) ==
  IF arcs = <<>> THEN <<>>
  ELSE << <<arcs[1].order, arcs[1].startLat, arcs[1].startLng>>,
          <<arcs[1].order, arcs[1].endLat, arcs[1].endLng>> >>
         \o EndPoints(Tail(arcs))

\* C21: in the point list _buildData passes to setGlobeData no two points
\* have both the same lat and the same lng; every (lat, lng) pair among the
\* start and end points of the sanitized arcs appears exactly once; the
\* point kept for a pair is its first occurrence in arc order, start before
\* end, and the kept points are in that order.
C21_PointsDeduplicated ==
  op.name = "_buildData" =>
    LET e == EndPoints(sanitized)
        first == {i \in 1..Len(e) :
                    \A j \in 1..(i - 1) : ~(e[j][2] = e[i][2] /\ e[j][3] = e[i][3])}
    IN  /\ \A i, j \in 1..Len(globeData) :
             (globeData[i].lat = globeData[j].lat /\ globeData[i].lng = globeData[j].lng)
               => i = j
        /\ \A i \in 1..Len(e) :
             Cardinality({j \in 1..Len(globeData) :
                            globeData[j].lat = e[i][2] /\ globeData[j].lng = e[i][3]}) = 1
        /\ Len(globeData) = Cardinality(first)
        /\ \A j \in 1..Len(globeData) :
             \E i \in first :
               /\ Cardinality({x \in first : x < i}) = j - 1
               /\ globeData[j].order = e[i][1]
               /\ globeData[j].lat = e[i][2]
               /\ globeData[j].lng = e[i][3]

\* _buildData ran on two arcs that were both kept and have the same two end
\* points in the opposite order, with different order members: two points
\* are left, those of the first arc
C21_Witness ==
  /\ op.name = "_buildData"
  /\ Len(sanitized) = 2 /\ Len(globeData) = 2
  /\ sanitized[1].order # sanitized[2].order
  /\ sanitized[1].startLat = sanitized[2].endLat
  /\ sanitized[1].startLng = sanitized[2].endLng
  /\ globeData[1].order = sanitized[1].order
  /\ globeData[2].order = sanitized[1].order

\* the integers of [min, max)
InHalfOpenRange(r) == min <= r /\ r < max

\* the integers a draw can produce: those of [min, max) when max > min,
\* those of [max, min] otherwise
Drawable(r) == IF max > min THEN InHalfOpenRange(r) ELSE max <= r /\ r <= min

DrawableCount == IF max > min THEN max - min ELSE min - max + 1

\* the array returned holds count numbers (none when count <= 0), no two
\* of them equal
ReturnedDistinct ==
  /\ Len(arr) = (IF count > 0 THEN count ELSE 0)
  /\ \A i, j \in 1..Len(arr) : arr[i] = arr[j] => i = j

\* C28 as stated: genRandomNumbers returns only when count <= max - min or
\* count <= 0, and then count pairwise distinct integers of [min, max).
C28_ReturnsOnlyWhenFits ==
  pc = "done" =>
    /\ count <= max - min \/ count <= 0
    /\ ReturnedDistinct
    /\ \A i \in 1..Len(arr) : InHalfOpenRange(arr[i])

\* C28 amended: a draw produces the integers of [min, max) when max > min,
\* min alone when max = min and the integers of [max, min] when max < min;
\* under fair random choice genRandomNumbers returns exactly when count is
\* at most the number of integers a draw can produce (or count <= 0), and
\* it then returns count pairwise distinct such integers; with a larger
\* count it never returns.
C28_ReturnsIffDrawable ==
  /\ [](pc = "done" =>
          /\ count <= DrawableCount
          /\ ReturnedDistinct
          /\ \A i \in 1..Len(arr) : Drawable(arr[i]))
  /\ [](count > DrawableCount => pc # "done")
  /\ (count <= DrawableCount) ~> (pc = "done")

\* genRandomNumbers returned every integer of a range of three
C28_Witness ==
  /\ pc = "done"
  /\ max - min = 3 /\ count = 3
  /\ Len(arr) = 3
  /\ \A r \in min..(max - 1) : r \in Range(arr)

====
